---- MODULE Spec2Model ----
(***************************************************************************)
(* The session/connection state machine of the OpenWebUI desktop client.   *)
(*                                                                         *)
(* src/src/renderer/App.tsx holds two variants of the App component:       *)
(*   "completions"  lines 20-269: API key as bearer, model discovery via   *)
(*                  GET /models, chat via POST /chat/completions;          *)
(*   "history"      lines 281-435: API key as bearer, history via          *)
(*                  GET /chats, chat via POST /message.                    *)
(* The variable `variant` says which of the two components is mounted.     *)
(*                                                                         *)
(* A JavaScript string is a sequence of non-empty pieces of text; a        *)
(* whitespace character is always a piece of its own, so that trim() and   *)
(* includes() are computed on the sequence.  <<>> is the empty string.     *)
(***************************************************************************)
EXTENDS Integers, Sequences, FiniteSets, TLC

\* ------------------------------------------------------------- bounds
\* Fetches issued before the user stops sending messages and restarting
\* the application.
MaxRequests == 3
\* Largest value the millisecond clock Date.now() takes.
MaxClock == 1

\* ------------------------------------------------------------ strings
\* null / undefined: the one-piece sequence holding the empty piece, which
\* is no string (pieces of a string are never empty).
Null == <<"">>

\* JavaScript truthiness of a string-or-null value: !x is ~Truthy(x).
Truthy(x) == x # Null /\ x # <<>>

\* a || b
OrElse(a, b) == IF Truthy(a) THEN a ELSE b

WhiteSpace == {" ", "\t", "\n"}

RECURSIVE trimStart(_)
trimStart(s) ==
  IF s # <<>> /\ Head(s) \in WhiteSpace THEN trimStart(Tail(s)) ELSE s

RECURSIVE trimEnd(_)
trimEnd(s) ==
  IF s # <<>> /\ s[Len(s)] \in WhiteSpace
  THEN trimEnd(SubSeq(s, 1, Len(s) - 1))
  ELSE s

\* String.prototype.trim
trim(s) == trimEnd(trimStart(s))

\* String.prototype.includes
includes(hay, needle) ==
  \E i \in 0..(Len(hay) - Len(needle)) :
     SubSeq(hay, i + 1, i + Len(needle)) = needle

\* String.prototype.endsWith
endsWith(s, suffix) ==
  /\ Len(s) >= Len(suffix)
  /\ SubSeq(s, Len(s) - Len(suffix) + 1, Len(s)) = suffix

RECURSIVE stripTrailingSlashes(_)
\* serverUrl.replace(/\/+$/, '')
stripTrailingSlashes(s) ==
  IF s # <<>> /\ s[Len(s)] = "/"
  THEN stripTrailingSlashes(SubSeq(s, 1, Len(s) - 1))
  ELSE s

\* getApiBase(): the server URL without trailing slashes, ending in /api.
getApiBase(url) ==
  LET trimmed == stripTrailingSlashes(url)
  IN  IF endsWith(trimmed, <<"/", "api">>) THEN trimmed
      ELSE trimmed \o <<"/", "api">>

\* -------------------------------------------------------------- state
VARIABLES
  variant,     \* which App component is mounted
  store,       \* localStorage: the entries 'serverUrl' and 'apiKey'
  serverUrl,   \* useState: text of the server URL field
  apiKey,      \* useState: text of the API key field
  token,       \* useState: bearer token, Null when disconnected
  model,       \* useState: selected model id, Null when none
  messages,    \* useState: the conversation
  currentMsg,  \* useState: text of the chat input
  error,       \* useState: the error overlay, Null when none
  now,         \* the last value read from Date.now()
  pending,     \* the fetches issued by this process and not yet settled
  nextReq,     \* number given to the next fetch (never reused)
  last,        \* the handler or callback that ran last
  rendered     \* `messages` as of the last render: what the handlers of
               \* that render have in their closure

vars == <<variant, store, serverUrl, apiKey, token, model, messages,
          currentMsg, error, now, pending, nextReq, last, rendered>>

Variants == {"completions", "history"}

\* The error overlay texts of the source.
ErrRequired == <<"Server URL and API key required">>
ErrModels == <<"Failed to retrieve models">>
ErrFormat == <<"Invalid response format">>
ErrNetwork == <<"Network error">>
ErrHistory == <<"Failed to fetch chat history">>
ErrSend == <<"Failed to send message">>
ErrUnexpected(text) == <<"Unexpected response: ">> \o text

\* The component's state, localStorage and the outstanding fetches as one
\* record, on which the handlers below are functions.
State ==
  [store |-> store, serverUrl |-> serverUrl, apiKey |-> apiKey,
   token |-> token, model |-> model, messages |-> messages,
   currentMsg |-> currentMsg, error |-> error,
   pending |-> pending, nextReq |-> nextReq, rendered |-> rendered]

\* useState initial values, with localStorage as `st` and no fetch pending.
FreshState(st, nreq) ==
  [store |-> st, serverUrl |-> <<>>, apiKey |-> <<>>, token |-> Null,
   model |-> Null, messages |-> <<>>, currentMsg |-> <<>>, error |-> Null,
   pending |-> {}, nextReq |-> nreq, rendered |-> <<>>]

Apply(s) ==
  /\ store' = s.store
  /\ serverUrl' = s.serverUrl
  /\ apiKey' = s.apiKey
  /\ token' = s.token
  /\ model' = s.model
  /\ messages' = s.messages
  /\ currentMsg' = s.currentMsg
  /\ error' = s.error
  /\ pending' = s.pending
  /\ nextReq' = s.nextReq

\* The endpoints, relative to getApiBase().
ModelsPath == <<"/", "models">>
CompletionsPath == <<"/", "chat", "/", "completions">>
ChatsPath == <<"/", "chats">>
MessagePath == <<"/", "message">>

\* A request body; fields a request does not send are Null / empty.
NoBody == [model |-> Null, messages |-> <<>>, content |-> Null]

\* fetch(`${getApiBase()}${path}`, {headers: {Authorization: `Bearer ${token}`}})
Fetch(s, method, path, body) ==
  [s EXCEPT
     !.pending = @ \cup {[id |-> s.nextReq, method |-> method, path |-> path,
                          base |-> getApiBase(s.serverUrl), auth |-> s.token,
                          body |-> body]},
     !.nextReq = @ + 1]

\* ------------------------------------------------------------ effects
\* useEffect(setup, [token, serverUrl]) of the completions variant, up to
\* the await of fetchFirstModel's fetch.
setup(s) ==
  IF ~Truthy(s.token) THEN s
  ELSE Fetch([s EXCEPT !.error = Null, !.messages = <<>>],
             "GET", ModelsPath, NoBody)

\* useEffect(fetchHistory, [serverUrl, token]) of the history variant, up
\* to the await of its fetch.
fetchHistory(s) ==
  IF ~Truthy(s.token) THEN s
  ELSE Fetch(s, "GET", ChatsPath, NoBody)

\* The effect of variant v.
Effect(v, s) == IF v = "completions" THEN setup(s) ELSE fetchHistory(s)

\* Commit with the effect's dependency array left out: the effect runs
\* after every render.
CommitEveryRender(v, old, new) == Effect(v, new)

\* React commits the state `new` after a render whose previous state was
\* `old`: the effect runs again iff one of its dependencies changed.
Commit(v, old, new) ==
  IF <<new.token, new.serverUrl>> # <<old.token, old.serverUrl>>
  THEN Effect(v, new)
  ELSE new

\* The mount effect restoring the API key alone.
loadSavedKeyOnly(s) ==
  LET savedKey == OrElse(s.store.apiKey, <<>>)
  IN  IF Truthy(savedKey)
      THEN [s EXCEPT !.apiKey = savedKey, !.token = savedKey]
      ELSE s

\* The mount effect: restore the server URL and the API key from
\* localStorage; a saved key becomes the token.
loadSaved(s) ==
  LET savedUrl == OrElse(s.store.serverUrl, <<>>)
      savedKey == OrElse(s.store.apiKey, <<>>)
      s1 == IF Truthy(savedUrl) THEN [s EXCEPT !.serverUrl = savedUrl] ELSE s
  IN  IF Truthy(savedKey)
      THEN [s1 EXCEPT !.apiKey = savedKey, !.token = savedKey]
      ELSE s1

\* A process start on which the effect is not run again after the saved
\* values were loaded.
MountWithoutEffect(v, st, nreq) == loadSaved(Effect(v, FreshState(st, nreq)))

\* A process start: first render with the initial state, both effects run
\* (the second returns at once, the token being null), then the state set
\* by the mount effect is committed.
Mount(v, st, nreq) ==
  LET s0 == Effect(v, FreshState(st, nreq))
  IN  Commit(v, s0, loadSaved(s0))

\* ----------------------------------------------------------- handlers
\* connect rejecting only when both fields are blank.
connectIfAny(s) ==
  LET s0 == [s EXCEPT !.error = Null]
      url == trim(s.serverUrl)
      key == trim(s.apiKey)
  IN  IF ~Truthy(url) /\ ~Truthy(key)
      THEN [s0 EXCEPT !.error = ErrRequired]
      ELSE [s0 EXCEPT !.store = [serverUrl |-> url, apiKey |-> key],
                      !.token = key]

\* connect saving the fields as typed.
connectAsTyped(s) ==
  LET s0 == [s EXCEPT !.error = Null]
      url == trim(s.serverUrl)
      key == trim(s.apiKey)
  IN  IF ~Truthy(url) \/ ~Truthy(key)
      THEN [s0 EXCEPT !.error = ErrRequired]
      ELSE [s0 EXCEPT !.store = [serverUrl |-> s.serverUrl,
                                 apiKey |-> s.apiKey],
                      !.token = key]

\* connect (both variants): validate, save to localStorage, set the token.
connect(s) ==
  LET s0 == [s EXCEPT !.error = Null]
      url == trim(s.serverUrl)
      key == trim(s.apiKey)
  IN  IF ~Truthy(url) \/ ~Truthy(key)
      THEN [s0 EXCEPT !.error = ErrRequired]
      ELSE [s0 EXCEPT !.store = [serverUrl |-> url, apiKey |-> key],
                      !.token = key]

\* ---------------------------------------------------------- responses
\* What a fetch settles with.  net = FALSE: the promise rejects (transport
\* failure).  Otherwise an HTTP response: its status, its content-type
\* header (Null when missing), its body as text (raw), whether the body
\* parses as a JSON object (valid) and, if so, the fields read from it.
\* An array-valued field is <<>> when missing and <<array>> when present.
isOk(status) == status >= 200 /\ status <= 299

JsonType == <<"application/json">>

\* A response taken as JSON on its status alone.
isJsonByStatus(resp) == isOk(resp.status)

\* res.ok && (res.headers.get('content-type') || '').includes('application/json')
isJson(resp) ==
  isOk(resp.status) /\ includes(OrElse(resp.ctype, <<>>), JsonType)

NoData == [models |-> <<>>, choices |-> <<>>, messages |-> <<>>]

NetworkFailure ==
  [net |-> FALSE, status |-> 0, ctype |-> Null, raw |-> <<>>,
   valid |-> FALSE, data |-> NoData]

Http(status, ctype, raw, valid, data) ==
  [net |-> TRUE, status |-> status, ctype |-> ctype, raw |-> raw,
   valid |-> valid, data |-> data]

Statuses == {200, 201, 404}

ContentTypes ==
  { Null,
    <<"application/json", ";", " ", "charset=utf-8">>,
    <<"text/plain">> }

\* fetchFirstModel preferring the first model's name to its id.
fetchFirstModelNameFirst(resp) ==
  IF ~resp.net THEN Null
  ELSE IF isJson(resp)
  THEN IF ~resp.valid THEN Null
       ELSE IF resp.data.models # <<>> /\ Len(resp.data.models[1]) > 0
       THEN LET first == resp.data.models[1][1]
            IN  OrElse(OrElse(first.name, first.id), Null)
       ELSE Null
  ELSE Null

\* fetchFirstModel from the settled fetch on: the first model's id, else
\* its name, else null; null on every failure.
fetchFirstModel(resp) ==
  IF ~resp.net THEN Null
  ELSE IF isJson(resp)
  THEN IF ~resp.valid THEN Null
       ELSE IF resp.data.models # <<>> /\ Len(resp.data.models[1]) > 0
       THEN LET first == resp.data.models[1][1]
            IN  OrElse(OrElse(first.id, first.name), Null)
       ELSE Null
  ELSE Null

\* setup trying the discovery again when it has failed.
setupResumeRetry(s, mdl) ==
  IF Truthy(mdl) THEN [s EXCEPT !.model = mdl]
  ELSE Fetch([s EXCEPT !.model = Null, !.error = ErrModels],
             "GET", ModelsPath, NoBody)

\* setup dropping the token when the discovery has failed.
setupResumeLogout(s, mdl) ==
  IF Truthy(mdl) THEN [s EXCEPT !.model = mdl]
  ELSE [s EXCEPT !.model = Null, !.error = ErrModels, !.token = Null]

\* setup showing no error when the discovery has failed.
setupResumeSilent(s, mdl) ==
  IF Truthy(mdl) THEN [s EXCEPT !.model = mdl]
  ELSE [s EXCEPT !.model = Null]

\* setup after `await fetchFirstModel()`.
setupResume(s, mdl) ==
  IF Truthy(mdl) THEN [s EXCEPT !.model = mdl]
  ELSE [s EXCEPT !.model = Null, !.error = ErrModels]

\* Date.now().toString()
TimeId(t) == <<"170000000000", ToString(t)>>

User == <<"user">>
Assistant == <<"assistant">>

\* The request and optimistic append of sendMessage (completions variant).
sendNow(s, t, trimmed) ==
  LET userMessage == [id |-> TimeId(t), text |-> trimmed, role |-> User]
      all == Append(s.rendered, userMessage)
      conversation ==
        [i \in 1..Len(all) |->
           [role |-> all[i].role, content |-> all[i].text]]
  IN  Fetch([s EXCEPT !.messages = Append(@, userMessage),
                      !.currentMsg = <<>>],
            "POST", CompletionsPath,
            [model |-> s.model, messages |-> conversation, content |-> Null])

\* sendMessage guarded by the token alone.
sendMessageNoModelGuard(s, t) ==
  IF ~Truthy(s.token) THEN s
  ELSE LET trimmed == trim(s.currentMsg)
       IN  IF ~Truthy(trimmed) THEN s ELSE sendNow(s, t, trimmed)

\* sendMessage testing the text as typed, not as trimmed.
sendMessageUntrimmedGuard(s, t) ==
  IF ~Truthy(s.token) \/ ~Truthy(s.model) THEN s
  ELSE LET trimmed == trim(s.currentMsg)
       IN  IF ~Truthy(s.currentMsg) THEN s ELSE sendNow(s, t, trimmed)

\* sendMessage of the completions variant, up to the await of its fetch;
\* t is the value of Date.now().
sendMessage(s, t) ==
  IF ~Truthy(s.token) \/ ~Truthy(s.model) THEN s
  ELSE LET trimmed == trim(s.currentMsg)
       IN  IF ~Truthy(trimmed) THEN s
           ELSE sendNow(s, t, trimmed)

\* The assistant messages of a `messages` array of a completions response.
fromMessagesArray(arr, t) ==
  LET keep(msg) == Truthy(msg.role) /\ msg.role # User
      kept == SelectSeq(arr, keep)
  IN  [i \in 1..Len(kept) |->
         [id |-> OrElse(kept[i].id, TimeId(t) \o <<"-a">>),
          text |-> OrElse(OrElse(kept[i].content, kept[i].text), <<>>),
          role |-> OrElse(kept[i].role, Assistant)]]

\* A failed send that also takes the last message back.
sendFailedRollback(s, err) ==
  [s EXCEPT !.error = err,
            !.messages = IF @ = <<>> THEN @ ELSE SubSeq(@, 1, Len(@) - 1)]

\* A failed send: setError(...), nothing else.
sendFailed(s, err) == [s EXCEPT !.error = err]

\* The reply text read with delta.content first.
replyOfDeltaFirst(c) == OrElse(OrElse(c.delta, c.message), <<>>)

\* data.choices[0].message?.content || data.choices[0].delta?.content || ''
replyOf(c) == OrElse(OrElse(c.message, c.delta), <<>>)

\* sendMessage of the completions variant after `await fetch(...)`.
sendResume(s, resp, t) ==
  IF ~resp.net THEN sendFailed(s, ErrNetwork)
  ELSE IF isJson(resp)
  THEN IF ~resp.valid THEN sendFailed(s, ErrNetwork)
       ELSE IF resp.data.choices # <<>> /\ Len(resp.data.choices[1]) > 0
       THEN LET reply == replyOf(resp.data.choices[1][1])
            IN  IF Truthy(reply)
                THEN [s EXCEPT !.messages =
                        Append(@, [id |-> TimeId(t) \o <<"-a">>,
                                   text |-> reply, role |-> Assistant])]
                ELSE s
       ELSE IF resp.data.messages # <<>>
       THEN [s EXCEPT !.messages =
               @ \o fromMessagesArray(resp.data.messages[1], t)]
       ELSE sendFailed(s, ErrFormat)
  ELSE sendFailed(s, ErrUnexpected(resp.raw))

\* fetchHistory emptying the conversation when the fetch has failed.
historyResumeClearing(s, resp) ==
  IF ~resp.net THEN [s EXCEPT !.error = ErrNetwork, !.messages = <<>>]
  ELSE IF isJson(resp)
  THEN IF ~resp.valid THEN [s EXCEPT !.error = ErrNetwork, !.messages = <<>>]
       ELSE [s EXCEPT !.messages =
               IF resp.data.messages # <<>> THEN resp.data.messages[1]
               ELSE <<>>]
  ELSE [s EXCEPT !.error = ErrHistory, !.messages = <<>>]

\* fetchHistory of the history variant after `await fetch(...)`.
historyResume(s, resp) ==
  IF ~resp.net THEN [s EXCEPT !.error = ErrNetwork]
  ELSE IF isJson(resp)
  THEN IF ~resp.valid THEN [s EXCEPT !.error = ErrNetwork]
       ELSE [s EXCEPT !.messages =
               IF resp.data.messages # <<>> THEN resp.data.messages[1]
               ELSE <<>>]
  ELSE [s EXCEPT !.error = ErrHistory]

\* sendMessage of the history variant, up to the await of its fetch.
sendMessageH(s, t) ==
  IF ~Truthy(s.token) THEN s
  ELSE LET trimmed == trim(s.currentMsg)
       IN  IF ~Truthy(trimmed) THEN s
           ELSE LET newMsg ==
                      [id |-> TimeId(t), text |-> trimmed, role |-> User]
                IN  Fetch([s EXCEPT !.messages = Append(@, newMsg),
                                    !.currentMsg = <<>>],
                          "POST", MessagePath,
                          [model |-> Null, messages |-> <<>>,
                           content |-> newMsg.text])

\* The messages of a /message response.
fromReply(arr, t) ==
  [i \in 1..Len(arr) |->
     [id |-> OrElse(arr[i].id, TimeId(t)),
      text |-> OrElse(OrElse(arr[i].text, arr[i].content), <<>>),
      role |-> OrElse(arr[i].role, Assistant)]]

\* sendMessage of the history variant after `await fetch(...)`.
sendResumeH(s, resp, t) ==
  IF ~resp.net THEN [s EXCEPT !.error = ErrNetwork]
  ELSE IF isJson(resp)
  THEN IF ~resp.valid THEN [s EXCEPT !.error = ErrNetwork]
       ELSE [s EXCEPT !.messages =
               @ \o fromReply(IF resp.data.messages # <<>>
                              THEN resp.data.messages[1] ELSE <<>>, t)]
  ELSE [s EXCEPT !.error = ErrSend]

\* --------------------------------------------------------------- view
\* The connect form rendered again when the discovery has failed.
ViewReconnectOnFailure ==
  IF ~Truthy(token) THEN "connect"
  ELSE IF variant = "completions" /\ ~Truthy(model)
  THEN IF Truthy(error) THEN "connect" ELSE "loading"
  ELSE "chat"

\* What the component renders: the connect form while there is no token,
\* the loading notice while the completions variant has no model, the chat
\* otherwise.
View ==
  IF ~Truthy(token) THEN "connect"
  ELSE IF variant = "completions" /\ ~Truthy(model) THEN "loading"
  ELSE "chat"

\* The session state of the specification.
Status ==
  IF ~Truthy(token) THEN "Disconnected"
  ELSE IF variant = "completions" /\ ~Truthy(model) THEN "Discovering"
  ELSE "Ready"

\* ------------------------------------------------------------- inputs
\* What the user types into the server URL field, the API key field and
\* the chat input.
UrlInputs == { <<" ">>, <<" ", "u", "/", " ">> }
KeyInputs == { <<"\t">>, <<"k", " ">> }
MsgInputs == { <<" ">>, <<" ", "hi", " ", "you", "\n">> }

\* Response bodies: text that is no JSON, and JSON objects.
Text(raw) == [raw |-> raw, valid |-> FALSE, data |-> NoData]
Json(data) == [raw |-> <<"{json}">>, valid |-> TRUE, data |-> data]

Responses(bodies) ==
  {NetworkFailure} \cup
  { Http(st, ct, b.raw, b.valid, b.data) :
      st \in Statuses, ct \in ContentTypes, b \in bodies }

ModelEntry(id, name) == [id |-> id, name |-> name]

ModelsBodies ==
  { Text(<<"Not Found">>),
    Json(NoData),
    Json([NoData EXCEPT !.models = << <<>> >>]),
    Json([NoData EXCEPT !.models = << <<ModelEntry(<<"m1">>, <<"n1">>)>> >>]),
    Json([NoData EXCEPT !.models = << <<ModelEntry(Null, <<"n1">>),
                                        ModelEntry(<<"m2">>, Null)>> >>]),
    Json([NoData EXCEPT !.models = << <<ModelEntry(<<>>, Null),
                                        ModelEntry(<<"m2">>, <<"n2">>)>> >>]) }

Choice(message, delta) == [message |-> message, delta |-> delta]
Entry(id, role, content, text) ==
  [id |-> id, role |-> role, content |-> content, text |-> text]

ReplyEntries ==
  << Entry(Null, User, <<"hi">>, Null),
     Entry(<<"1">>, Assistant, <<"a1">>, Null),
     Entry(Null, <<"system">>, Null, <<"a2">>),
     Entry(Null, Assistant, <<"a3">>, Null) >>

CompletionBodies ==
  { Text(<<"Not Found">>),
    Json(NoData),
    Json([NoData EXCEPT
            !.choices = << <<Choice(<<"hello">>, <<"de">>)>> >>,
            !.messages = <<ReplyEntries>>]),
    Json([NoData EXCEPT !.choices = << <<Choice(Null, <<"hello">>)>> >>]),
    Json([NoData EXCEPT !.choices = << <<Choice(Null, Null)>> >>]),
    Json([NoData EXCEPT !.choices = << <<>> >>,
                        !.messages = <<ReplyEntries>>]) }

ReplyBodies ==
  { Text(<<"Not Found">>),
    Json(NoData),
    Json([NoData EXCEPT
            !.messages = << <<Entry(<<"1">>, Assistant, Null, <<"a1">>),
                              Entry(Null, Null, <<"a2">>, Null)>> >>]) }

HistoryBodies ==
  { Text(<<"Not Found">>),
    Json(NoData),
    Json([NoData EXCEPT
            !.messages = << <<[id |-> <<"1">>, role |-> User,
                               text |-> <<"hi">>]>> >>]) }

\* ------------------------------------------------------------ actions
\* Date.now() as read by a handler: the clock has not gone back.
Clock(t) == t \in now..(IF now < MaxClock THEN now + 1 ELSE now)
Times == {u \in 0..MaxClock : Clock(u)}

\* The component's state becomes s: React commits it, renders and runs the
\* effect whose dependencies changed.  A handler reads Date.now() only to
\* build a message, and `now` is the last value read.
Becomes(s, op, t) ==
  /\ Apply(Commit(variant, State, s))
  /\ last' = op
  /\ now' = IF s.messages = messages THEN now ELSE t
  /\ rendered' = messages'
  /\ UNCHANGED variant

\* onChange of the server URL field.
setServerUrl(v) == Becomes([State EXCEPT !.serverUrl = v], "setServerUrl", now)

\* onChange of the API key field.
setApiKey(v) == Becomes([State EXCEPT !.apiKey = v], "setApiKey", now)

\* onChange of the chat input.
setCurrentMsg(v) ==
  Becomes([State EXCEPT !.currentMsg = v], "setCurrentMsg", now)

\* onClick of the Connect button.
CallConnect == Becomes(connect(State), "connect", now)

\* onClick of the Send button, or Enter in the chat input.
CallSendMessage ==
  \E t \in Times :
     LET s == IF variant = "completions" THEN sendMessage(State, t)
              ELSE sendMessageH(State, t)
     IN  /\ s.nextReq <= MaxRequests + 1
         /\ Becomes(s, "sendMessage", t)

\* The connect form is rendered.
TypeServerUrl == View = "connect" /\ \E v \in UrlInputs : setServerUrl(v)
TypeApiKey == View = "connect" /\ \E v \in KeyInputs : setApiKey(v)
ClickConnect == View = "connect" /\ CallConnect

\* The chat is rendered.
TypeMessage == View = "chat" /\ \E v \in MsgInputs : setCurrentMsg(v)
ClickSend == View = "chat" /\ CallSendMessage

\* The outstanding fetches by the endpoint they go to.
PendingTo(path) == {r \in pending : r.path = path}

\* A settled fetch whose continuation goes on from the conversation as it
\* was when the request was built.
SettledAsSent(r) ==
  [State EXCEPT !.pending = @ \ {r},
                !.messages = SubSeq(@, 1, Len(r.body.messages))]

\* The fetch r has settled: it is no longer outstanding.
Settled(r) == [State EXCEPT !.pending = @ \ {r}]

\* The component's state once fetch r has settled with resp and the code
\* after its await has run (t is Date.now() at that moment).
AfterModels(r, resp) == setupResume(Settled(r), fetchFirstModel(resp))
AfterCompletion(r, resp, t) == sendResume(Settled(r), resp, t)
AfterHistory(r, resp) == historyResume(Settled(r), resp)
AfterReply(r, resp, t) == sendResumeH(Settled(r), resp, t)

\* The fetch of fetchFirstModel settles.
ModelsResponse ==
  \E r \in PendingTo(ModelsPath) : \E resp \in Responses(ModelsBodies) :
     Becomes(AfterModels(r, resp), "modelsResponse", now)

\* The fetch of sendMessage (completions variant) settles.
CompletionResponse ==
  \E r \in PendingTo(CompletionsPath) :
     \E resp \in Responses(CompletionBodies) : \E t \in Times :
        Becomes(AfterCompletion(r, resp, t), "completionResponse", t)

\* The fetch of fetchHistory settles.
HistoryResponse ==
  \E r \in PendingTo(ChatsPath) : \E resp \in Responses(HistoryBodies) :
     Becomes(AfterHistory(r, resp), "historyResponse", now)

\* The fetch of sendMessage (history variant) settles.
ReplyResponse ==
  \E r \in PendingTo(MessagePath) :
     \E resp \in Responses(ReplyBodies) : \E t \in Times :
        Becomes(AfterReply(r, resp, t), "replyResponse", t)

\* A restart that keeps what the previous process had: its conversation
\* and its outstanding fetches.
RestartKeepingSession ==
  /\ nextReq <= MaxRequests
  /\ LET s0 == Effect(variant,
                      [FreshState(store, nextReq) EXCEPT
                         !.messages = messages, !.pending = pending])
     IN  Apply(Commit(variant, s0, loadSaved(s0)))
  /\ last' = "mount"
  /\ rendered' = messages'
  /\ UNCHANGED <<variant, now>>

\* The application is closed and started again: the component state and
\* the outstanding fetches are gone, localStorage stays.
Restart ==
  /\ nextReq <= MaxRequests
  /\ Apply(Mount(variant, store, nextReq))
  /\ last' = "mount"
  /\ rendered' = messages'
  /\ UNCHANGED <<variant, now>>

NoStore == [serverUrl |-> Null, apiKey |-> Null]

\* The first launch, with nothing in localStorage.
Init ==
  /\ variant \in Variants
  /\ now = 0
  /\ last = "mount"
  /\ LET s == Mount(variant, NoStore, 1)
     IN  /\ store = s.store
         /\ serverUrl = s.serverUrl
         /\ apiKey = s.apiKey
         /\ token = s.token
         /\ model = s.model
         /\ messages = s.messages
         /\ currentMsg = s.currentMsg
         /\ error = s.error
         /\ pending = s.pending
         /\ nextReq = s.nextReq
         /\ rendered = s.messages

Next ==
  \/ TypeServerUrl
  \/ TypeApiKey
  \/ ClickConnect
  \/ TypeMessage
  \/ ClickSend
  \/ ModelsResponse
  \/ CompletionResponse
  \/ HistoryResponse
  \/ ReplyResponse
  \/ Restart

Spec == Init /\ [][Next]_vars

\* The handlers of the chat input called whatever the component renders:
\* what sendMessage does when it is invoked outside the chat view.
AnyTypeMessage == \E v \in MsgInputs : setCurrentMsg(v)
AnySendMessage == CallSendMessage

NextHandlers == Next \/ AnyTypeMessage \/ AnySendMessage

SpecHandlers == Init /\ [][NextHandlers]_vars

\* The fetch of sendMessage (completions variant) settles and its
\* continuation appends to the conversation, but React has only scheduled
\* the render: the state update was made in a promise callback, outside
\* any event handler.
CompletionResponseDeferred ==
  \E r \in PendingTo(CompletionsPath) :
     \E resp \in Responses(CompletionBodies) : \E t \in Times :
        LET s == AfterCompletion(r, resp, t)
        IN  /\ s.messages # messages
            /\ Apply(Commit(variant, State, s))
            /\ last' = "completionResponse"
            /\ now' = t
            /\ UNCHANGED <<variant, rendered>>

\* The scheduled render takes place.
Render ==
  /\ rendered # messages
  /\ rendered' = messages
  /\ last' = "render"
  /\ UNCHANGED <<variant, store, serverUrl, apiKey, token, model, messages,
                 currentMsg, error, now, pending, nextReq>>

\* The program when a state update made by a fetch continuation is
\* rendered in a later task, so that a user event can come in between.
NextDeferred == Next \/ CompletionResponseDeferred \/ Render

SpecDeferred == Init /\ [][NextDeferred]_vars

\* The program when every discovery request is answered at some time, with
\* a response or a transport failure.
SpecAnswered == Spec /\ WF_vars(ModelsResponse)

\* ------------------------------------------------------------- claims
\* The fetches to `path` issued by the step.
IssuedTo(path) == {r \in pending' : r.path = path /\ r.id >= nextReq}

\* The step is a call of connect with both fields non-blank / with a blank
\* field.
ConnectAccepted ==
  last' = "connect" /\ Truthy(trim(serverUrl)) /\ Truthy(trim(apiKey))
ConnectRejected ==
  last' = "connect" /\ (~Truthy(trim(serverUrl)) \/ ~Truthy(trim(apiKey)))

\* The step sets the credential of the session: a token is set, and it is
\* a new process, a new token or a new server URL.
CredentialChanged ==
  /\ Truthy(token')
  /\ \/ last' = "mount"
     \/ <<token', serverUrl'>> # <<token, serverUrl>>

\* C1: an accepted connect persists the trimmed credential, empties the
\* conversation and enters Discovering (token set, no model); a step issues
\* exactly one GET /models when it changes the credential (a connect, or a
\* start that reads a persisted key) and none otherwise.
C1_OneDiscoveryPerCredential ==
  [][variant = "completions" =>
       /\ ConnectAccepted =>
            /\ store' = [serverUrl |-> trim(serverUrl),
                         apiKey |-> trim(apiKey)]
            /\ messages' = <<>>
            /\ token' = trim(apiKey)
            /\ ~Truthy(model')
       /\ Cardinality(IssuedTo(ModelsPath)) =
            IF CredentialChanged THEN 1 ELSE 0]_vars

\* C1 witness: a process started with a persisted key is in Discovering
\* with its one discovery request outstanding.
C1_Witness ==
  /\ variant = "completions"
  /\ last = "mount"
  /\ Truthy(token) /\ ~Truthy(model)
  /\ Cardinality(PendingTo(ModelsPath)) = 1

\* C2: a connect with a blank field sets the validation error and nothing
\* else: localStorage, token (unset), conversation, model and the fetches
\* are as before.
C2_RejectedConnectBlocksOnly ==
  [][ConnectRejected =>
       /\ error' = ErrRequired
       /\ ~Truthy(token')
       /\ UNCHANGED <<store, token, messages, model, pending, nextReq>>]_vars

\* C2 witness: connect was called with a server URL and a blank API key.
C2_Witness ==
  /\ last = "connect"
  /\ error = ErrRequired
  /\ Truthy(trim(serverUrl)) /\ apiKey # <<>> /\ ~Truthy(trim(apiKey))
  /\ ~Truthy(token) /\ store = NoStore /\ pending = {}

\* A discovery response that is a failure: transport failure, status
\* outside 2xx, content type that is not JSON, a body that is no JSON, a
\* models list that is missing or empty.
DiscoveryFailure(resp) ==
  \/ ~resp.net
  \/ resp.status \notin 200..299
  \/ ~includes(OrElse(resp.ctype, <<>>), JsonType)
  \/ ~resp.valid
  \/ resp.data.models = <<>>
  \/ resp.data.models[1] = <<>>

\* Whatever failure the outstanding discovery settles with, the session is
\* then in Discovering (same token, no model) with the error 'Failed to
\* retrieve models', and no fetch has been issued.
C3_FailureKeepsDiscovering ==
  \A r \in PendingTo(ModelsPath) : \A resp \in Responses(ModelsBodies) :
     DiscoveryFailure(resp) =>
       LET s == Commit(variant, State, AfterModels(r, resp))
       IN  /\ Truthy(token) /\ s.token = token
           /\ s.model = Null
           /\ s.error = ErrModels
           /\ s.pending = pending \ {r}
           /\ s.nextReq = nextReq

\* A fetch is issued only by a step the user takes (connect, send, start
\* of the application), a discovery only by connect or a start; and a
\* session in Discovering with the discovery error stays as it is until
\* the application is started again.
C3_NoRetryStep ==
  /\ nextReq' # nextReq => last' \in {"connect", "sendMessage", "mount"}
  /\ IssuedTo(ModelsPath) # {} => last' \in {"connect", "mount"}
  /\ (Status = "Discovering" /\ error = ErrModels /\ last' # "mount") =>
       UNCHANGED <<token, model, error, pending, nextReq>>

\* C3: a failed discovery leaves the session in Discovering with the error
\* 'Failed to retrieve models'; nothing is fetched again unless the user
\* acts (connect, send) or starts the application.
C3_NoRetry == []C3_FailureKeepsDiscovering /\ [][C3_NoRetryStep]_vars

\* C3 witness: the discovery has failed.
C3_Witness ==
  /\ last = "modelsResponse"
  /\ Status = "Discovering"
  /\ error = ErrModels
  /\ pending = {}

\* The session state but for the clock and the record of the last handler.
session == <<store, serverUrl, apiKey, token, model, messages, currentMsg,
             error, pending, nextReq>>

\* C4: sendMessage called while the session is not Ready (no token, or no
\* model in the completions variant) appends nothing, fetches nothing and
\* changes no field of the session.
C4_SendOnlyInReady ==
  [][(last' = "sendMessage" /\ Status # "Ready") =>
       UNCHANGED session]_vars

\* C4 witness: sendMessage was called with a non-blank text in Discovering
\* after a failed discovery, and the text is still in the input.
C4_Witness ==
  /\ last = "sendMessage"
  /\ Status = "Discovering"
  /\ error = ErrModels
  /\ Truthy(trim(currentMsg))
  /\ messages = <<>> /\ pending = {}

\* A chat-completion response that is a failure: transport failure, status
\* outside 2xx, content type that is not JSON, a body that is no JSON, or a
\* JSON body with neither a non-empty `choices` nor a `messages` array.
SendFailure(resp) ==
  \/ ~resp.net
  \/ resp.status \notin 200..299
  \/ ~includes(OrElse(resp.ctype, <<>>), JsonType)
  \/ ~resp.valid
  \/ /\ resp.data.choices = <<>> \/ resp.data.choices[1] = <<>>
     /\ resp.data.messages = <<>>

\* The texts of the assistant messages a successful response returns, in
\* the order returned.
ReturnedTexts(data) ==
  IF data.choices # <<>> /\ data.choices[1] # <<>>
  THEN LET c == data.choices[1][1]
       IN  IF Truthy(c.message) THEN <<c.message>>
           ELSE IF Truthy(c.delta) THEN <<c.delta>>
           ELSE <<>>
  ELSE LET isReply(e) == Truthy(e.role) /\ e.role # User
           replies == SelectSeq(data.messages[1], isReply)
       IN  [i \in 1..Len(replies) |->
              IF Truthy(replies[i].content) THEN replies[i].content
              ELSE IF Truthy(replies[i].text) THEN replies[i].text
              ELSE <<>>]

\* The user message of every outstanding send is in the conversation, no
\* earlier than where the request has it; whatever the send settles with, the
\* conversation so far stays as it is; a failure sets the error and appends
\* nothing, a success appends the returned assistant messages in order.
C5_UserMessageStays ==
  variant = "completions" =>
    \A r \in PendingTo(CompletionsPath) :
       LET p == Len(r.body.messages)
       IN  /\ \E q \in p..Len(messages) :
                /\ messages[q].role = User
                /\ messages[q].text = r.body.messages[p].content
           /\ \A resp \in Responses(CompletionBodies) : \A t \in Times :
                LET s == Commit(variant, State, AfterCompletion(r, resp, t))
                    n == Len(messages)
                    added == SubSeq(s.messages, n + 1, Len(s.messages))
                IN  /\ Len(s.messages) >= n
                    /\ SubSeq(s.messages, 1, n) = messages
                    /\ IF SendFailure(resp)
                       THEN Truthy(s.error) /\ added = <<>>
                       ELSE /\ [i \in 1..Len(added) |-> added[i].text]
                                 = ReturnedTexts(resp.data)
                            /\ \A i \in 1..Len(added) : added[i].role # User
                            /\ s.error = error

\* A send in Ready with a non-blank text appends the user message (the
\* trimmed text) at the end of the conversation and issues the request,
\* which is outstanding after the step.
C5_OptimisticAppend ==
  (/\ variant = "completions"
   /\ last' = "sendMessage"
   /\ Status = "Ready"
   /\ Truthy(trim(currentMsg))) =>
     /\ Len(messages') = Len(messages) + 1
     /\ SubSeq(messages', 1, Len(messages)) = messages
     /\ messages'[Len(messages')].role = User
     /\ messages'[Len(messages')].text = trim(currentMsg)
     /\ Cardinality(IssuedTo(CompletionsPath)) = 1

C6_BlankSendIsNoOp ==
  [][(last' = "sendMessage" /\ ~Truthy(trim(currentMsg))) =>
       UNCHANGED session]_vars

\* C6 witness: in Ready, with an error showing, sendMessage was called on
\* a text of whitespace, which is still in the input.
C6_Witness ==
  /\ last = "sendMessage"
  /\ Status = "Ready"
  /\ currentMsg # <<>> /\ ~Truthy(trim(currentMsg))
  /\ Truthy(error)

\* Every outstanding fetch was issued with the token and the server URL the
\* session has now: no reply to a request of another credential can arrive.
C7_RequestsOfThisCredential ==
  \A r \in pending :
     r.auth = token /\ r.base = getApiBase(serverUrl)

\* The step that changes the credential leaves the conversation empty and
\* no fetch outstanding but those it issues itself.
C7_ResetOnChange ==
  CredentialChanged =>
    /\ messages' = <<>>
    /\ \A r \in pending' : r.id >= nextReq

C8_TokenKept ==
  /\ (Truthy(token) /\ last' # "mount") => token' = token
  /\ last' = "mount" => (Truthy(token') <=> Truthy(store.apiKey))
  /\ Truthy(token) => Truthy(token')

\* C8: a token that is set is never unset, whatever connects, responses,
\* sends and failures follow; the session is Disconnected only while
\* nothing is persisted, from the start of a process on.
C8_NeverBackToDisconnected ==
  [](Status = "Disconnected" => store = NoStore) /\ [][C8_TokenKept]_vars

\* C8 witness: after a conversation and a restart the discovery has failed
\* and the token is still set.
C8_Witness ==
  /\ last = "modelsResponse"
  /\ error = ErrModels
  /\ now > 0
  /\ Truthy(token)
  /\ Status # "Disconnected"

\* An accepted connect writes the two trimmed fields to localStorage and
\* nothing else writes to it.
C9_SavesTrimmed ==
  IF ConnectAccepted
  THEN store' = [serverUrl |-> trim(serverUrl), apiKey |-> trim(apiKey)]
  ELSE store' = store

\* A start reads what is persisted, as it is, into the server URL, the API
\* key and the token, and reads nothing when nothing was saved.
C9_LoadsSaved ==
  last' = "mount" =>
    /\ store' = store
    /\ IF store = NoStore
       THEN serverUrl' = <<>> /\ apiKey' = <<>> /\ token' = Null
       ELSE /\ serverUrl' = store.serverUrl
            /\ apiKey' = store.apiKey
            /\ token' = store.apiKey

\* C9 (as amended): connect persists the trimmed server URL and API key,
\* replacing both entries; a later start loads them unchanged; a start with
\* nothing saved loads absent values.
C9_TrimmedRoundTrip ==
  [](store = NoStore \/ (Truthy(store.serverUrl) /\ Truthy(store.apiKey)))
  /\ [][C9_SavesTrimmed /\ C9_LoadsSaved]_vars

\* C9 witness: a process started after a connect with padded fields has
\* loaded the trimmed pair.
C9_Witness ==
  /\ last = "mount"
  /\ store = [serverUrl |-> <<"u", "/">>, apiKey |-> <<"k">>]
  /\ serverUrl = <<"u", "/">>
  /\ apiKey = <<"k">>
  /\ token = <<"k">>

\* C9 (as stated): an accepted connect persists exactly the two values it
\* was given.
C9_PersistsExactly ==
  [][ConnectAccepted =>
       store' = [serverUrl |-> serverUrl, apiKey |-> apiKey]]_vars

\* An HTTP response that is not both 2xx and of a JSON content type.
NotJsonSuccess(resp) ==
  /\ resp.net
  /\ \/ resp.status \notin 200..299
     \/ ~includes(OrElse(resp.ctype, <<>>), JsonType)

\* C10: whatever fetch is outstanding, a response to it that is not both
\* 2xx and of a content type containing application/json is a failure,
\* whatever its body: discovery yields no model; a send appends no message
\* and sets the error.
C10_SuccessNeedsOkAndJson ==
  /\ \A r \in PendingTo(ModelsPath) :
       \A resp \in Responses(ModelsBodies) :
          NotJsonSuccess(resp) =>
            /\ fetchFirstModel(resp) = Null
            /\ LET s == Commit(variant, State, AfterModels(r, resp))
               IN  ~Truthy(s.model) /\ s.error = ErrModels
  /\ \A r \in PendingTo(CompletionsPath) :
       \A resp \in Responses(CompletionBodies) :
          NotJsonSuccess(resp) =>
            LET s == Commit(variant, State, AfterCompletion(r, resp, now))
            IN  s.messages = messages /\ s.error = ErrUnexpected(resp.raw)
  /\ \A r \in PendingTo(MessagePath) :
       \A resp \in Responses(ReplyBodies) :
          NotJsonSuccess(resp) =>
            LET s == Commit(variant, State, AfterReply(r, resp, now))
            IN  s.messages = messages /\ s.error = ErrSend

\* C10 witness: a send has settled with a response that was not JSON; its
\* body is in the error and the user message is the last message.
C10_Witness ==
  /\ last = "completionResponse"
  /\ error = ErrUnexpected(<<"{json}">>)
  /\ messages # <<>>
  /\ messages[Len(messages)].role = User

\* A 2xx JSON response whose body parses.
ParsedJson(resp) ==
  /\ resp.net
  /\ resp.status \in 200..299
  /\ includes(OrElse(resp.ctype, <<>>), JsonType)
  /\ resp.valid

\* The body has none of the recognised shapes: no choices[0].message.content,
\* no choices[0].delta.content and no messages array.
NoShape(data) ==
  /\ \/ data.choices = <<>>
     \/ data.choices[1] = <<>>
     \/ /\ ~Truthy(data.choices[1][1].message)
        /\ ~Truthy(data.choices[1][1].delta)
  /\ data.messages = <<>>

\* C11 (as stated): whatever send is outstanding, a 2xx JSON response to it
\* of none of the three recognised shapes sets the format error; it never
\* leaves both the conversation and the error as they were.
C11_NoShapeIsFormatError ==
  \A r \in PendingTo(CompletionsPath) :
     \A resp \in Responses(CompletionBodies) :
        (ParsedJson(resp) /\ NoShape(resp.data)) =>
          LET s == Commit(variant, State, AfterCompletion(r, resp, now))
          IN  s.error = ErrFormat

\* The messages the response `resp` to the outstanding send r adds to the
\* conversation when it is handled at time t.
AddedBy(r, resp, t) ==
  LET s == Commit(variant, State, AfterCompletion(r, resp, t))
  IN  SubSeq(s.messages, Len(messages) + 1, Len(s.messages))

\* One assistant message with the given text.
OneAssistant(added, text) ==
  /\ Len(added) = 1
  /\ added[1].role = Assistant
  /\ added[1].text = text

\* C12: a 2xx JSON response to a send with a non-empty
\* choices[0].message.content appends exactly one assistant message with
\* that text, whatever delta.content and whatever messages array it also
\* has; delta.content is the text only when message.content is missing; the
\* messages array is read only when choices is missing or empty.
C12_MessageContentFirst ==
  \A r \in PendingTo(CompletionsPath) :
     \A resp \in Responses(CompletionBodies) : \A t \in Times :
        ParsedJson(resp) =>
          LET data == resp.data
              added == AddedBy(r, resp, t)
          IN  IF data.choices # <<>> /\ data.choices[1] # <<>>
              THEN LET c == data.choices[1][1]
                   IN  /\ Truthy(c.message) => OneAssistant(added, c.message)
                       /\ (~Truthy(c.message) /\ Truthy(c.delta)) =>
                            OneAssistant(added, c.delta)
                       /\ (~Truthy(c.message) /\ ~Truthy(c.delta)) =>
                            added = <<>>
              ELSE IF data.messages # <<>>
              THEN added = fromMessagesArray(data.messages[1], t)
              ELSE added = <<>>

\* C12 witness: the reply to the one send of the conversation has been
\* appended as one assistant message after the user message.
C12_Witness ==
  /\ last = "completionResponse"
  /\ Len(messages) = 2
  /\ messages[1].role = User
  /\ messages[2] = [id |-> TimeId(now) \o <<"-a">>, text |-> <<"hello">>,
                    role |-> Assistant]

\* What discovery is to return for a models list: the first entry's id,
\* its name when it has no id, nothing when there is no first entry.
FirstModel(data) ==
  IF data.models = <<>> \/ data.models[1] = <<>> THEN Null
  ELSE LET first == data.models[1][1]
       IN  IF Truthy(first.id) THEN first.id
           ELSE IF Truthy(first.name) THEN first.name
           ELSE Null

\* C13: for every outstanding discovery and every 2xx JSON response to it,
\* fetchFirstModel returns the id of the first entry of the models list,
\* its name when the id is missing, and nothing when the list is empty or
\* missing, whatever the entries after the first; the session's model is
\* that value.
C13_FirstModelIdThenName ==
  \A r \in PendingTo(ModelsPath) :
     \A resp \in Responses(ModelsBodies) :
        ParsedJson(resp) =>
          /\ fetchFirstModel(resp) = FirstModel(resp.data)
          /\ Commit(variant, State, AfterModels(r, resp)).model
               = FirstModel(resp.data)

\* C13 witness: discovery has selected a model by the name of the first
\* entry, which had no id, and not by the id of the second.
C13_Witness ==
  /\ last = "modelsResponse"
  /\ model = <<"n1">>
  /\ Status = "Ready"

\* In the history variant a step issues one GET /chats when it sets the
\* credential and none otherwise.
C14_OneHistoryFetch ==
  variant = "history" =>
    Cardinality(IssuedTo(ChatsPath)) = IF CredentialChanged THEN 1 ELSE 0

\* Whatever the outstanding history fetch settles with: a 2xx JSON response
\* makes the conversation the `messages` list of the body as it is (empty
\* when the field is missing) and leaves the error alone; every other
\* outcome sets an error and leaves the conversation, the token and
\* localStorage as they were.
C14_HistoryApplied ==
  \A r \in PendingTo(ChatsPath) :
     \A resp \in Responses(HistoryBodies) :
        LET s == Commit(variant, State, AfterHistory(r, resp))
        IN  /\ s.token = token /\ s.store = store /\ s.model = model
            /\ IF ParsedJson(resp)
               THEN /\ s.messages = IF resp.data.messages = <<>> THEN <<>>
                                    ELSE resp.data.messages[1]
                    /\ s.error = error
               ELSE /\ s.messages = messages
                    /\ s.error = IF NotJsonSuccess(resp) THEN ErrHistory
                                 ELSE ErrNetwork

\* C14: in the history variant the step that connects the session issues
\* exactly one history fetch; a 2xx JSON response to it makes the
\* conversation the server's list, in its order; a failed fetch sets the
\* error, keeps the session connected and keeps the conversation.
C14_HistoryFetchedOnce ==
  []C14_HistoryApplied /\ [][C14_OneHistoryFetch]_vars

\* C14 witness: the history fetch has failed; the session is still
\* connected and the message sent meanwhile is still in the conversation.
C14_Witness ==
  /\ variant = "history"
  /\ last = "historyResponse"
  /\ error = ErrHistory
  /\ Status = "Ready"
  /\ messages # <<>>
  /\ PendingTo(ChatsPath) = {}

\* C15 (as stated): in every reachable state the messages of the
\* conversation have pairwise distinct ids.
C15_UniqueIds ==
  \A i, j \in 1..Len(messages) :
     messages[i].id = messages[j].id => i = j

\* C16: whenever the token is set (Discovering or Ready), the server URL
\* and the API key of the session are non-blank, in the component's state
\* and in localStorage, the token is the trimmed key, and every fetch was
\* issued with a token; so it is after a connect and after a start that
\* loaded the persisted values.
C16_ConnectedHasCredential ==
  Truthy(token) =>
    /\ Truthy(trim(serverUrl))
    /\ Truthy(trim(apiKey))
    /\ token = trim(apiKey)
    /\ Truthy(store.serverUrl) /\ Truthy(store.apiKey)
    /\ \A r \in pending : Truthy(r.auth)

\* C16 witness: a process of the history variant started with a persisted
\* credential is connected, with the loaded URL and key, and is fetching.
C16_Witness ==
  /\ variant = "history"
  /\ last = "mount"
  /\ Truthy(token)
  /\ serverUrl = store.serverUrl /\ apiKey = store.apiKey
  /\ Truthy(serverUrl) /\ Truthy(apiKey)
  /\ pending # {}

\* The step is a send or the handling of a send's response.
SendOrReply ==
  last' \in {"sendMessage", "completionResponse", "replyResponse"}

\* A send that goes out appends its user message at the end; the handling
\* of a send's response only appends, and appends no user message: the
\* conversation before the step is the beginning of the conversation after
\* it.  In the completions variant no other step touches the conversation
\* while the credential stays.
C17_AppendOnArrival ==
  /\ SendOrReply =>
       /\ Len(messages') >= Len(messages)
       /\ SubSeq(messages', 1, Len(messages)) = messages
       /\ IF last' = "sendMessage"
          THEN \/ messages' = messages /\ pending' = pending
               \/ /\ Len(messages') = Len(messages) + 1
                  /\ messages'[Len(messages')].role = User
                  /\ messages'[Len(messages')].text = trim(currentMsg)
                  /\ Cardinality(pending') = Cardinality(pending) + 1
          ELSE \A i \in (Len(messages) + 1)..Len(messages') :
                  messages'[i].role # User
  /\ (variant = "completions" /\ ~SendOrReply /\ ~CredentialChanged) =>
       messages' = messages

\* C17: with several sends outstanding, the reply of each is appended when
\* its response arrives, in whatever order; the user message of a send is
\* appended when the send is made and every later send or reply only
\* appends, so a reply comes after the user message of its send, and
\* neither a send nor a reply drops, repeats or replaces a message that is
\* in the conversation.
C17_RepliesInArrivalOrder == [][C17_AppendOnArrival]_vars

\* C17 witness: of two sends the second has been answered first: its reply
\* follows both user messages while the first send is still outstanding.
C17_Witness ==
  /\ variant = "completions"
  /\ last = "completionResponse"
  /\ Len(messages) >= 3
  /\ messages[1].role = User /\ messages[2].role = User
  /\ messages[3].role # User
  /\ \E r \in PendingTo(CompletionsPath) : Len(r.body.messages) = 1

\* C18 (as stated): a step that does not change the credential keeps every
\* message of the conversation at its position: the conversation before
\* the step is the beginning of the conversation after it.
C18_AppendOnly ==
  [][~CredentialChanged =>
       /\ Len(messages') >= Len(messages)
       /\ SubSeq(messages', 1, Len(messages)) = messages]_vars

\* The body of a chat-completion request for the conversation msgs.
Payload(msgs) ==
  [i \in 1..Len(msgs) |-> [role |-> msgs[i].role, content |-> msgs[i].text]]

\* C19 (as stated): a send in Ready with a non-blank text issues one
\* chat-completion request, whose body has the selected model and, in
\* order, every message of the conversation at the moment of the call
\* followed by the new user message.
C19_PayloadIsConversation ==
  [][(/\ variant = "completions"
      /\ last' = "sendMessage"
      /\ Status = "Ready"
      /\ Truthy(trim(currentMsg))) =>
        /\ Cardinality(IssuedTo(CompletionsPath)) = 1
        /\ \A r \in IssuedTo(CompletionsPath) :
              /\ r.body.model = model
              /\ Len(r.body.messages) = Len(messages) + 1
              /\ SubSeq(r.body.messages, 1, Len(messages))
                   = Payload(messages)
              /\ r.body.messages[Len(messages) + 1]
                   = [role |-> User, content |-> trim(currentMsg)]]_vars

\* The session is in Discovering with no error showing.
DiscoveringQuietly ==
  variant = "completions" /\ Status = "Discovering" /\ ~Truthy(error)

\* While the discovery request is unanswered nothing moves the session:
\* in Discovering without an error the request is outstanding, and every
\* step but its settling leaves the session in Discovering without an
\* error.
C20_WaitsForResponse ==
  (DiscoveringQuietly /\ last' # "modelsResponse") =>
     (Status' = "Discovering" /\ ~Truthy(error'))

\* C20: every discovery request being answered at some time, a session in
\* Discovering comes to Ready or shows an error; until the request is
\* answered it is outstanding and the session stays in Discovering with no
\* error, whatever else happens: nothing times out and nothing cancels.
C20_DiscoveryEndsOnlyByResponse ==
  /\ DiscoveringQuietly ~> (Status = "Ready" \/ Truthy(error))
  /\ [](DiscoveringQuietly => PendingTo(ModelsPath) # {})
  /\ [][C20_WaitsForResponse]_vars

\* C20 witness: the discovery has been answered and the session is Ready
\* with the model m1 and no error.
C20_Witness ==
  /\ variant = "completions"
  /\ last = "modelsResponse"
  /\ Status = "Ready"
  /\ model = <<"m1">>
  /\ ~Truthy(error)
  /\ pending = {}

\* The endpoint the effect of the variant fetches from.
EffectPath == IF variant = "completions" THEN ModelsPath ELSE ChatsPath

\* A process start with a persisted key sets the token to it and issues
\* one fetch of the effect (model discovery in the completions variant), to
\* the persisted server URL and with the persisted key; a start with no
\* persisted key leaves the token unset and issues nothing.  Without a
\* token, only an accepted connect sets it, and no other step fetches.
C21_StartStep ==
  /\ last' = "mount" =>
       IF Truthy(store.apiKey)
       THEN /\ token' = store.apiKey
            /\ serverUrl' = store.serverUrl
            /\ Cardinality(pending') = 1
            /\ \A r \in pending' :
                  /\ r.path = EffectPath
                  /\ r.method = "GET"
                  /\ r.base = getApiBase(store.serverUrl)
                  /\ r.auth = store.apiKey
       ELSE ~Truthy(token') /\ pending' = {}
  /\ (~Truthy(token) /\ last' # "mount" /\ ~ConnectAccepted) =>
       (~Truthy(token') /\ pending' = {})

\* C21: a process started with a persisted API key leaves Disconnected by
\* itself (the token is the persisted key) and runs the discovery against
\* the persisted server URL; one started with no persisted key is
\* Disconnected and has no fetch outstanding until a connect is accepted.
C21_StartReadsPersisted ==
  [](~Truthy(token) => pending = {}) /\ [][C21_StartStep]_vars

\* C21 witness: a process started with the persisted pair is discovering
\* against the persisted URL with the persisted key.
C21_Witness ==
  /\ variant = "completions"
  /\ last = "mount"
  /\ Status = "Discovering"
  /\ store = [serverUrl |-> <<"u", "/">>, apiKey |-> <<"k">>]
  /\ \E r \in PendingTo(ModelsPath) :
        r.base = <<"u", "/", "api">> /\ r.auth = <<"k">>

\* C22 (as stated): in every reachable state every message of the
\* conversation has the role user or the role assistant.
C22_RolesUserOrAssistant ==
  \A i \in 1..Len(messages) : messages[i].role \in {User, Assistant}

\* The discovery has failed: Discovering with the error showing.
DiscoveryFailed ==
  variant = "completions" /\ Status = "Discovering" /\ Truthy(error)

\* connect runs only while there is no token; within a process a set
\* credential (token and server URL) does not change, and no step issues a
\* discovery request but the one that sets the credential; from a failed
\* discovery the only step there is is a restart of the process.
C23_OneCredentialPerProcess ==
  /\ last' = "connect" => ~Truthy(token)
  /\ (Truthy(token) /\ last' # "mount") =>
       /\ <<token', serverUrl'>> = <<token, serverUrl>>
       /\ IssuedTo(ModelsPath) = {}
  /\ DiscoveryFailed => last' = "mount"

====
